---- MODULE Spec2Model ----
(***************************************************************************)
(* Model of the Tool of PDF2TIFF.py: updateParameters, and execute with    *)
(* its folder resolution, preflight, per-page export loop (clean,          *)
(* PDFToTIFF, reproject in place, add to map) and end-of-run failure       *)
(* table.  Every arcpy / os call is a step whose outcome (success or a     *)
(* raised exception) the environment chooses.                              *)
(***************************************************************************)
EXTENDS Integers, Sequences, FiniteSets, TLC

\* ------------------------------------------------------------------ bounds
MaxPageCount == 2
\* largest page number whose path is resolved in SpecPath
MaxPathPage == 130
\* longest list of candidates the query returns in SpecPick
MaxCands == 3
\* most warnings of the dialog that are kept (updateParameters can be
\* called, and can warn, any number of times)
MaxDialogWarnings == 1

\* ------------------------------------------------------------- input sets
ProjectIds == {"P1"}
Counties == {"Smith"}
\* parameters[1].valueAsText: unset, a folder, a file path pasted into the
\* folder field
FolderTexts == {"", "out", "keep/x.tif"}

\* Spatial references the host can report: factoryCode 0 is "no code".
\* The last five occur only in SpecEqual: the state plane under another
\* name, without a code, and under another code; WGS 84 without a code; a
\* custom reference without a code.
SpatialRefs ==
  [ wgs84      |-> [factoryCode |-> 4326, name |-> "GCS_WGS_1984"],
    stateplane |-> [factoryCode |-> 2263, name |-> "NAD_1983_StatePlane"],
    unknown    |-> [factoryCode |-> 0,    name |-> "Unknown"],
    sp_alias   |-> [factoryCode |-> 2263, name |-> "NAD83_New_York_Long_Island"],
    sp_nocode  |-> [factoryCode |-> 0,    name |-> "NAD_1983_StatePlane"],
    sp_other   |-> [factoryCode |-> 2264, name |-> "NAD_1983_StatePlane"],
    wgs_nocode |-> [factoryCode |-> 0,    name |-> "GCS_WGS_1984"],
    custom     |-> [factoryCode |-> 0,    name |-> "Custom_Local_Grid"] ]

\* aprx.activeMap: "None" (no map) or a map whose spatial reference is known
MapChoices == {"None", "stateplane"}

\* What Describe(in_path).spatialReference can be: a reference, or absent
DescribedRefs == {"None", "unknown", "wgs84", "stateplane"}

\* What arcpy.ListTransformations can return, in query order
CandidateLists ==
  [ empty  |-> << >>,
    plain  |-> << "WGS_1984_To_Custom", "Custom_2" >>,
    ranked |-> << "WGS_1984_To_Custom", "WGS_1984_(ITRF08)_To_NAD_1983_2011",
                  "NAD_1983_To_WGS_1984_5" >> ]

VARIABLES
  pc,            \* position in execute
  run,           \* 1 for the first invocation, 2 for a repeated one
  reruns,        \* how many more times the user will invoke the tool
  page_count,    \* pdf_doc.pageCount
  page_start,    \* parameters[2].value, a string ("" when unset)
  page_end,      \* parameters[3].value, a string ("" when unset)
  start_page,    \* execute's start_page, 0-based (0 before line 179)
  end_page,      \* execute's end_page, 0-based (0 before line 180)
  project_id,
  county,
  map_obj,       \* "None" or the id of the active map's spatial reference
  output_folder_text, \* parameters[1].valueAsText ("" when it is None)
  folder_is_none,     \* parameters[1].valueAsText is None: the folder is unset
  output_folder, \* execute's output_folder ("" before line 178)
  dirs,          \* the directories that exist
  made_dirs,     \* os.makedirs was called in this run
  files,         \* the regular files that exist: path -> content
  table,         \* the failures table in the project GDB
  page_num,      \* loop variable, 0-based
  failures,      \* the failure collector
  in_sr,         \* project_raster_in_place: the described reference
  tmp_path,      \* project_raster_in_place: the temporary path ("" when none)
  gtrans,        \* project_raster_in_place: the picked transformation
  listed,         \* _pick_transform: what ListTransformations returned
  out_path,      \* the loop's output_path ("" before the first page)
  uuids,         \* number of uuid4 values drawn so far
  status,        \* page -> "Pending" | "Succeeded" | "Skipped"
  attempted,     \* PDFToTIFF calls of this run, in call order
  page_calls,    \* external calls made for the current page, in call order
  msgs,          \* geoprocessing messages of this run, in order
  outcomes,      \* outcomes of the first run's calls, kept for a repeated run
  files_run1     \* the folder's file names when the first run ended

vars == << pc, run, reruns, page_count, page_start, page_end, start_page,
           end_page, project_id,
           county, map_obj, output_folder_text, folder_is_none, output_folder, dirs, made_dirs, files, table, page_num,
           failures, in_sr, tmp_path, gtrans, listed, out_path, uuids, status,
           attempted, page_calls, msgs, outcomes, files_run1 >>

\* ------------------------------------------------------------ pure helpers
Digits == <<"0", "1", "2", "3", "4", "5", "6", "7", "8", "9">>

RECURSIVE Str(_)
Str(n) == IF n < 10 THEN Digits[n + 1]
          ELSE Str(n \div 10) \o Digits[(n % 10) + 1]

\* str.zfill(width) of a decimal string of `len` characters
RECURSIVE Zfill(_, _, _)
Zfill(s, len, width) == IF len >= width THEN s ELSE Zfill("0" \o s, len + 1, width)

RECURSIVE NumDigits(_)
NumDigits(n) == IF n < 10 THEN 1 ELSE 1 + NumDigits(n \div 10)

\* the one element of a singleton set: Only({F(v) : v \in {e}}) is F(e) with
\* e evaluated once
Only(S) == CHOOSE x \in S : TRUE

\* the greatest element of a set of positions, 0 for the empty set
Last(hits) == IF hits = {} THEN 0 ELSE CHOOSE i \in hits : \A j \in hits : j <= i

\* the least element of a set of positions, 1 for the empty set
First(hits) == IF hits = {} THEN 1 ELSE CHOOSE i \in hits : \A j \in hits : i <= j

\* the decimal digits int() takes: in each row the digits 0 to 9 of one
\* script (ASCII, Extended Arabic-Indic, NKo, Bengali, Gujarati, Tamil,
\* Kannada, Malayalam, Lao, Myanmar, Khmer, New Tai Lue, Tai Tham Hora, Tai
\* Tham Tham, Sundanese, Saurashtra, Javanese, Myanmar Tai Laing, Meetei
\* Mayek).  A string of this module holds the characters below U+0080 and
\* those whose code ends in a byte of 80 to FF; the digits of the other
\* scripts (Arabic-Indic U+0660, Devanagari U+0966, fullwidth U+FF10, ...)
\* cannot be written here.
DigitRows ==
  << "0123456789",
     "۰۱۲۳۴۵۶۷۸۹",
     "߀߁߂߃߄߅߆߇߈߉",
     "০১২৩৪৫৬৭৮৯",
     "૦૧૨૩૪૫૬૭૮૯",
     "௦௧௨௩௪௫௬௭௮௯",
     "೦೧೨೩೪೫೬೭೮೯",
     "෦෧෨෩෪෫෬෭෮෯",
     "໐໑໒໓໔໕໖໗໘໙",
     "႐႑႒႓႔႕႖႗႘႙",
     "០១២៣៤៥៦៧៨៩",
     "᧐᧑᧒᧓᧔᧕᧖᧗᧘᧙",
     "᪀᪁᪂᪃᪄᪅᪆᪇᪈᪉",
     "᪐᪑᪒᪓᪔᪕᪖᪗᪘᪙",
     "᮰᮱᮲᮳᮴᮵᮶᮷᮸᮹",
     "꣐꣑꣒꣓꣔꣕꣖꣗꣘꣙",
     "꧐꧑꧒꧓꧔꧕꧖꧗꧘꧙",
     "꧰꧱꧲꧳꧴꧵꧶꧷꧸꧹",
     "꯰꯱꯲꯳꯴꯵꯶꯷꯸꯹" >>

\* every digit of DigitRows with its value
DigitMap ==
  [ch \in {SubSeq(DigitRows[r], d, d) : r \in 1..Len(DigitRows), d \in 1..10} |->
     (CHOOSE d \in 1..10 : \E r \in 1..Len(DigitRows) : SubSeq(DigitRows[r], d, d) = ch) - 1]

DigitValue(ch) == DigitMap[ch]

\* the number a string of decimal digits stands for
RECURSIVE DecimalValue(_)
DecimalValue(s) ==
  Only({IF Len(v) = 0 THEN 0
        ELSE 10 * DecimalValue(SubSeq(v, 1, Len(v) - 1))
               + DigitValue(SubSeq(v, Len(v), Len(v))) : v \in {s}})

\* the white space int() strips from both ends of its argument: space, tab,
\* line feed, carriage return, form feed, and (written as the characters
\* themselves) vertical tab U+000B, next line U+0085, no-break space U+00A0
\* and Ogham space mark U+1680.  The other white space int() strips
\* (U+2000-200A, U+2028, U+2029, U+202F, U+205F, U+3000) cannot be written
\* in a string of this module.
WhiteSpace == {" ", "\t", "\n", "\r", "\f", "", "", " ", " "}

\* the most digits int() takes (sys.int_info.default_max_str_digits); a
\* longer literal raises ValueError
MaxStrDigits == 4300

\* str.strip()
strip(s) ==
  Only({SubSeq(v, First(inside), Last(inside)) :
        v \in {s},
        inside \in {{i \in 1..Len(s) : SubSeq(s, i, i) \notin WhiteSpace}}})

\* the literal of int(s) without its white space and sign
IntBody(s) ==
  Only({IF Len(t) > 0 /\ SubSeq(t, 1, 1) \in {"+", "-"} THEN SubSeq(t, 2, Len(t)) ELSE t :
        t \in {strip(s)}})

\* the digits of a literal: its characters other than the underscores
RECURSIVE WithoutUnderscores(_)
WithoutUnderscores(b) ==
  Only({IF Len(v) = 0 THEN ""
        ELSE (IF SubSeq(v, 1, 1) = "_" THEN "" ELSE SubSeq(v, 1, 1))
               \o WithoutUnderscores(SubSeq(v, 2, Len(v))) : v \in {b}})

\* int(s) does not raise: white space around, one optional sign, decimal
\* digits (MaxStrDigits at most) with single underscores between them
IntAccepts(s) ==
  \E b \in {IntBody(s)} :
    \E digits \in {{i \in 1..Len(b) : SubSeq(b, i, i) # "_"}} :
      /\ digits # {}
      /\ Cardinality(digits) <= MaxStrDigits
      /\ \A i \in digits : SubSeq(b, i, i) \in DOMAIN DigitMap
      /\ \A i \in 1..Len(b) :
           SubSeq(b, i, i) = "_" =>
             /\ 1 < i /\ i < Len(b)
             /\ SubSeq(b, i + 1, i + 1) # "_"

\* int(s)
IntValue(s) ==
  Only({IF Len(t) > 0 /\ SubSeq(t, 1, 1) = "-" THEN 0 - n ELSE n :
        t \in {strip(s)}, n \in {DecimalValue(WithoutUnderscores(IntBody(s)))}})

\* str.rfind(ch) + 1: the last position of ch in s, 0 when it is not there
LastIndexOf(s, ch) ==
  Only({Last({i \in 1..Len(v) : SubSeq(v, i, i) = ch}) : v \in {s}})

RECURSIVE RStripSep(_)
RStripSep(s) ==
  IF Len(s) > 0 /\ SubSeq(s, Len(s), Len(s)) = "/"
    THEN RStripSep(SubSeq(s, 1, Len(s) - 1))
    ELSE s

\* os.path.dirname
dirname(p) ==
  Only({IF RStripSep(head) = "" THEN head ELSE RStripSep(head) :
        head \in {SubSeq(p, 1, LastIndexOf(p, "/"))}})

\* os.path.basename
basename(p) == Only({SubSeq(v, LastIndexOf(v, "/") + 1, Len(v)) : v \in {p}})

\* where os.path.splitext cuts p: the last dot of the last component, when
\* a character other than a dot stands before it in that component; else 0
ExtIndex(p) ==
  Only({IF dot > sep /\ \E k \in (sep + 1)..(dot - 1) : SubSeq(v, k, k) # "."
          THEN dot ELSE 0 :
        v \in {p}, sep \in {LastIndexOf(p, "/")}, dot \in {LastIndexOf(p, ".")}})

\* os.path.splitext(p)[1] and [0]
splitext_ext(p) ==
  Only({IF i = 0 THEN "" ELSE SubSeq(v, i, Len(v)) : v \in {p}, i \in {ExtIndex(p)}})
splitext_root(p) ==
  Only({IF i = 0 THEN v ELSE SubSeq(v, 1, i - 1) : v \in {p}, i \in {ExtIndex(p)}})

\* os.path.join(a, b)
join(a, b) ==
  IF Len(b) > 0 /\ SubSeq(b, 1, 1) = "/" THEN b
  ELSE IF a = "" \/ SubSeq(a, Len(a), Len(a)) = "/" THEN a \o b
  ELSE a \o "/" \o b

\* the directories makedirs(p) has to find or make: p and the paths above it
RECURSIVE PathsUpTo(_)
PathsUpTo(p) ==
  IF p = "" \/ RStripSep(p) = "" THEN {}
  ELSE UNION {{p} \cup (IF up = p THEN {} ELSE PathsUpTo(up)) : up \in {dirname(p)}}

\* a page label cut to its last two digits
pagestringTwoDigits(page_1b) == Zfill(Str(page_1b % 100), NumDigits(page_1b % 100), 2)

\* line 272: str(page_num + 1).zfill(2)
pagestring(page_1b) == Zfill(Str(page_1b), NumDigits(page_1b), 2)

\* output_filename without its extension (what splitext gives back)
OutputBase(pid, page_1b, cty) ==
  pid \o "_p" \o pagestring(page_1b) \o "_" \o cty \o "_County_Project"

output_filename(pid, page_1b, cty) == OutputBase(pid, page_1b, cty) \o ".tif"

\* line 275 for the folder given
PathIn(folder, pid, page_1b, cty) == join(folder, output_filename(pid, page_1b, cty))

\* line 275: os.path.join(output_folder, output_filename)
output_path(pid, page_1b, cty) == PathIn(output_folder, pid, page_1b, cty)

\* lines 244-246: tmp_path for in_path and the hex of the n-th uuid4 drawn
TmpPathOf(in_path, n) ==
  join(dirname(in_path),
       splitext_root(basename(in_path)) \o ".__tmp_" \o Str(n) \o ".tif")

TmpPath(pid, page_1b, cty, n) == TmpPathOf(output_path(pid, page_1b, cty), n)

\* references compared by name alone
_sr_equal_by_name(a, b) == a.name = b.name

\* lines 150-157 (a factoryCode of 0 is "no code")
_sr_equal(a, b) ==
  IF a.factoryCode # 0 /\ b.factoryCode # 0
    THEN a.factoryCode = b.factoryCode
    ELSE a.name = b.name

\* target_sr: the map's reference, or SpatialReference(4326) without a map
target_sr == IF map_obj = "None" THEN SpatialRefs["wgs84"] ELSE SpatialRefs[map_obj]

\* The preflight condition that raises ExecuteError
RangeRejected(start_1b, end_1b, count) == start_1b < 1 \/ end_1b > count

\* lines 208-209
req_start_1b == start_page + 1
req_end_1b == end_page + 1
page_1b == page_num + 1
cur_path == output_path(project_id, page_1b, county)

Msg(kind, pages) == [kind |-> kind, pages |-> pages]
Call(op, path, res) == [op |-> op, path |-> path, res |-> res]
Res(ok) == IF ok THEN "ok" ELSE "fail"

RECURSIVE PagesOf(_)
PagesOf(fs) == IF fs = <<>> THEN <<>> ELSE <<Head(fs).page>> \o PagesOf(Tail(fs))

\* A repeated run replays the outcome the same call had in the first run
Replays(op, res) ==
  IF run = 1 \/ <<op, page_1b>> \notin DOMAIN outcomes
    THEN TRUE
    ELSE outcomes[<<op, page_1b>>] = res

Remember(op, res) ==
  IF run = 1 /\ reruns > 0
    THEN (<<op, page_1b>> :> res) @@ outcomes
    ELSE outcomes

Without(f, k) == [x \in DOMAIN f \ {k} |-> f[x]]

\* the pages of the document, the domain of `status`
AllPages == 1..page_count

\* os.path.isdir, os.path.isfile
isdir(p) == p \in dirs
isfile(p) == p \in DOMAIN files

\* lines 185-190: the folder execute works in for the text given
ResolveFolder(text) ==
  IF text # "" /\ splitext_ext(text) # "" /\ ~isdir(text)
       /\ dirname(text) # "" /\ isdir(dirname(text))
    THEN dirname(text)
    ELSE text

\* ------------------------------------------------------------------- Init
InitRun ==
  /\ pc = "start"
  /\ start_page = 0
  /\ end_page = 0
  /\ output_folder = ""
  /\ made_dirs = FALSE
  /\ page_num = 0
  /\ failures = <<>>
  /\ in_sr = "None"
  /\ tmp_path = ""
  /\ gtrans = ""
  /\ listed = << >>
  /\ out_path = ""
  /\ status = [p \in AllPages |-> "Pending"]
  /\ attempted = <<>>
  /\ page_calls = <<>>
  /\ msgs = <<>>

\* page values the dialog or a caller can hand over: unset, or a number
\* (int() takes a sign)
PageTexts == {"", "-1"} \cup {Str(n) : n \in 0..(MaxPageCount + 1)}

\* The file system under the folder text: which of the text's path and the
\* paths above it are directories (ds), whether one of them is a regular
\* file (blocker), which pages have a file of an earlier run (stale) and
\* which have a directory at their path (taken); such files and
\* directories are enumerated for a folder text without an extension that
\* is itself a directory, a directory for the first page only.
InitFiles(pages) ==
  \E ds \in SUBSET PathsUpTo(output_folder_text) :
    \E blocker \in (PathsUpTo(output_folder_text) \ ds) \cup {""} :
      \E stale \in SUBSET pages :
       \E taken \in SUBSET {p \in pages \ stale : p <= 1} :
        /\ \A d \in ds : PathsUpTo(d) \subseteq ds
        /\ blocker # "" => (dirname(blocker) = "" \/ dirname(blocker) \in ds)
        /\ dirs = ds \cup {PathIn(output_folder_text, project_id, p, county) : p \in taken}
        /\ (~(output_folder_text \in ds) \/ splitext_ext(output_folder_text) # "")
             => (stale = {} /\ taken = {})
        /\ files =
             [f \in {PathIn(ResolveFolder(output_folder_text), project_id, p, county) :
                       p \in stale} |-> "old"]
             @@ [f \in {blocker} \ {""} |-> "other"]

InitInputs(texts) ==
  /\ page_count \in 1..MaxPageCount
  /\ page_start \in PageTexts
  /\ page_end \in PageTexts
  /\ project_id \in ProjectIds
  /\ county \in Counties
  /\ map_obj \in MapChoices
  /\ output_folder_text \in texts
  /\ folder_is_none \in {FALSE, output_folder_text = ""}
  /\ InitFiles(1..MaxPageCount)
  /\ table \in {"absent", "old"}
  /\ uuids = 0
  /\ run = 1
  /\ outcomes = << >>
  /\ files_run1 = {}

Init == InitInputs(FolderTexts) /\ InitRun /\ reruns = 0

\* ---------------------------------------------------------------- actions
\* line 127: the extensions taken for a pasted file path
FileExts == {".pdf", ".tif", ".tiff", ".jpg", ".png"}

\* the ASCII letters, each small letter at the position of its capital
AsciiSmall == "abcdefghijklmnopqrstuvwxyz"
AsciiCapital == "ABCDEFGHIJKLMNOPQRSTUVWXYZ"

\* line 127: ext.lower() in [".pdf", ".tif", ".tiff", ".jpg", ".png"].
\* str.lower() works character by character, and the entries are made of
\* "." and small ASCII letters other than k: the characters whose lower() is
\* such a character are the character itself and, for a letter, its ASCII
\* capital (no other character's lower() is an ASCII character, but for
\* U+212A, which gives "k"; that of U+0130 is "i" with U+0307 after it).
ExtListed(ext) ==
  \E v \in {ext} :
    \E e \in FileExts :
      /\ Len(v) = Len(e)
      /\ \A i \in 1..Len(e) :
           \E c \in {SubSeq(v, i, i)}, x \in {SubSeq(e, i, i)} :
             \/ c = x
             \/ \E k \in 1..Len(AsciiSmall) :
                  /\ SubSeq(AsciiSmall, k, k) = x
                  /\ SubSeq(AsciiCapital, k, k) = c

\* lines 123-130: a file path in the folder field becomes its directory
CoerceFolder(text) ==
  IF text # "" /\ splitext_ext(text) # ""
       /\ (isfile(text) \/ ExtListed(splitext_ext(text)))
       /\ dirname(text) # "" /\ isdir(dirname(text))
    THEN dirname(text)
    ELSE text

\* lines 110-114: a value above the page count is set to the page count
Clamped(value) ==
  IF value # "" /\ IntValue(value) > page_count THEN Str(page_count) ELSE value

\* int(value) raises for a value that is set
Raises(value) == value # "" /\ ~IntAccepts(value)

\* lines 89-140: updateParameters, called by the host on every change in
\* the dialog, any number of times before execute.  entered: the PDF was
\* altered and is a file (line 93); readable: PDFDocumentOpen gave the page
\* count; s_alt, e_alt: the user has set Page Start, Page End.  An int()
\* that raises ends the try it is in (lines 110-114, 133-138).  The filter
\* lists of the dropdowns (lines 99-101, 118-119) are not state of the
\* model.
UpdateParameters ==
  /\ pc = "start"
  /\ \E entered, readable, s_alt, e_alt \in BOOLEAN :
       /\ ~(entered /\ readable) => (s_alt /\ e_alt)
       /\ ~entered => readable
       /\ (entered /\ ~readable) => Len(msgs) < MaxDialogWarnings
       /\ \E read \in {entered /\ readable} :
          \E s1 \in {IF read /\ ~s_alt THEN "1" ELSE page_start},
             e1 \in {IF read /\ ~e_alt THEN Str(page_count) ELSE page_end} :
          \E s2 \in {IF read /\ ~Raises(s1) THEN Clamped(s1) ELSE s1},
             e2 \in {IF read /\ ~Raises(s1) /\ ~Raises(e1) THEN Clamped(e1) ELSE e1} :
            /\ page_start' = s2
            /\ page_end' = IF /\ s2 # "" /\ e2 # ""
                               /\ IntAccepts(s2) /\ IntAccepts(e2)
                               /\ IntValue(e2) < IntValue(s2)
                              THEN s2 ELSE e2
       /\ msgs' = IF entered /\ ~readable
                    THEN Append(msgs, Msg("warn_pagecount", << >>)) ELSE msgs
  /\ output_folder_text' = CoerceFolder(output_folder_text)
  /\ UNCHANGED << pc, run, reruns, listed, out_path, page_count, project_id,
                  county, map_obj, folder_is_none, output_folder, dirs, made_dirs,
                  start_page, end_page, files, table, page_num, failures, in_sr, tmp_path, gtrans,
                  uuids, status, attempted, page_calls, outcomes, files_run1 >>

\* what a makedirs(folder) that raised may have made on its way: some of the
\* missing directories above the folder
PartlyMade(folder) ==
  {made \in SUBSET ((PathsUpTo(folder) \ {folder}) \ dirs) :
     \A d \in made : /\ PathsUpTo(d) \subseteq dirs \cup made
                      /\ PathsUpTo(d) \cap DOMAIN files = {}}

\* lines 177-192: read the parameters, resolve the output folder and make
\* sure it exists.  int() of a page value that is no number, os.path.isdir
\* of a folder that is None and a makedirs that fails raise out of execute.
EnsureFolder ==
  /\ pc = "start"
  /\ start_page' = IF IntAccepts(page_start) THEN IntValue(page_start) - 1 ELSE start_page
  /\ end_page' = IF IntAccepts(page_start) /\ IntAccepts(page_end)
                   THEN IntValue(page_end) - 1 ELSE end_page
  /\ IF ~IntAccepts(page_start) \/ ~IntAccepts(page_end) \/ folder_is_none
       THEN /\ pc' = "crashed"
            /\ output_folder' = output_folder_text
            /\ UNCHANGED << dirs, made_dirs, outcomes >>
       ELSE \E folder \in {ResolveFolder(output_folder_text)} :
                /\ output_folder' = folder
                /\ IF isdir(folder)
                     THEN /\ pc' = "map"
                          /\ UNCHANGED << dirs, made_dirs, outcomes >>
                     ELSE \E ok \in BOOLEAN :
                            /\ ok => (folder # "" /\ PathsUpTo(folder) \cap DOMAIN files = {})
                            /\ Replays("makedirs", Res(ok))
                            /\ outcomes' = Remember("makedirs", Res(ok))
                            /\ made_dirs' = TRUE
                            /\ IF ok
                                 THEN /\ dirs' = dirs \cup PathsUpTo(folder)
                                      /\ pc' = "map"
                                 ELSE /\ \E made \in PartlyMade(folder) : dirs' = dirs \cup made
                                      /\ pc' = "crashed"
  /\ UNCHANGED << run, reruns, listed, out_path, page_count, page_start, page_end,
                  project_id, county, map_obj, output_folder_text, folder_is_none, files, table,
                  page_num, failures, in_sr, tmp_path, gtrans, uuids, status,
                  attempted, page_calls, msgs, files_run1 >>

\* lines 195-197: the current project and its map; a failure raises out of
\* execute
GetMap ==
  /\ pc = "map"
  /\ \E ok \in BOOLEAN :
       /\ Replays("aprx", Res(ok))
       /\ outcomes' = Remember("aprx", Res(ok))
       /\ pc' = IF ok THEN "preflight" ELSE "crashed"
  /\ UNCHANGED << run, reruns, listed, out_path, page_count, page_start, page_end, start_page, end_page,
                  project_id, county, map_obj, output_folder_text, folder_is_none, output_folder,
                  dirs, made_dirs, files, table, page_num, failures, in_sr,
                  tmp_path, gtrans, uuids, status, attempted, page_calls, msgs,
                  files_run1 >>

\* lines 199-214: read the page count, check the requested range
Preflight ==
  /\ pc = "preflight"
  /\ \E readable \in BOOLEAN :
       /\ Replays("pagecount", Res(readable))
       /\ outcomes' = Remember("pagecount", Res(readable))
       /\ IF ~readable
            THEN /\ msgs' = Append(msgs, Msg("error_pagecount", <<>>))
                 /\ pc' = "aborted"
                 /\ UNCHANGED page_num
            ELSE IF RangeRejected(req_start_1b, req_end_1b, page_count)
              THEN /\ msgs' = Append(msgs, Msg("error_range", <<req_start_1b, req_end_1b>>))
                   /\ pc' = "aborted"
                   /\ UNCHANGED page_num
              ELSE /\ pc' = "loop"
                   /\ page_num' = start_page
                   /\ UNCHANGED msgs
  /\ UNCHANGED << run, reruns, listed, out_path, made_dirs, page_count, page_start, page_end, start_page, end_page, project_id,
                  county, map_obj, output_folder_text, folder_is_none, output_folder, dirs, files, table, failures, in_sr,
                  tmp_path, gtrans, uuids, status, attempted, page_calls,
                  files_run1 >>

\* line 270: the range is exhausted
LoopExit ==
  /\ pc = "loop"
  /\ page_num > end_page
  /\ pc' = "report"
  /\ UNCHANGED << run, reruns, listed, out_path, made_dirs, page_count, page_start, page_end, start_page, end_page, project_id,
                  county, map_obj, output_folder_text, folder_is_none, output_folder, dirs, files, table, page_num, failures,
                  in_sr, tmp_path, gtrans, uuids, status, attempted, page_calls,
                  msgs, outcomes, files_run1 >>

\* a delete that is attempted whether or not a file is there
StaleExistsAlways == TRUE

\* line 278: os.path.exists(output_path), true of a file and of a directory
StaleExists == isfile(cur_path) \/ isdir(cur_path)

\* lines 270-282: next page; delete a previous export at its path
Clean ==
  /\ pc = "loop"
  /\ page_num <= end_page
  /\ IF StaleExists
       THEN \E ok \in BOOLEAN :
              /\ Replays("clean", Res(ok))
              /\ files' = IF ok THEN Without(files, cur_path) ELSE files
              /\ dirs' = IF ok THEN dirs \ {cur_path} ELSE dirs
              /\ page_calls' = << Call("clean", cur_path, Res(ok)) >>
              /\ outcomes' = Remember("clean", Res(ok))
       ELSE /\ page_calls' = << >>
            /\ UNCHANGED << files, dirs, outcomes >>
  /\ out_path' = cur_path
  /\ pc' = "export"
  /\ UNCHANGED << run, reruns, listed, made_dirs, page_count, page_start, page_end, start_page, end_page, project_id,
                  county, map_obj, output_folder_text, folder_is_none, output_folder, table, page_num, failures, in_sr,
                  tmp_path, gtrans, uuids, status, attempted, msgs, files_run1 >>

\* the loop body ends for this page (line 304, or the end of line 318)
NextPage(st) ==
  /\ status' = [status EXCEPT ![page_1b] = st]
  /\ page_num' = page_num + 1
  /\ pc' = "loop"

\* a failed export that ends the loop instead of going on to the next page
SkipPageBreak(rec) ==
  /\ failures' = Append(failures, rec)
  /\ msgs' = Append(msgs, Msg("skip", <<page_1b>>))
  /\ status' = [status EXCEPT ![page_1b] = "Skipped"]
  /\ page_num' = page_num + 1
  /\ pc' = "report"

\* what the except branch of lines 295-304 does
SkipPage(rec) ==
  /\ failures' = Append(failures, rec)
  /\ msgs' = Append(msgs, Msg("skip", <<page_1b>>))
  /\ NextPage("Skipped")

\* lines 285-304: the PDFToTIFF call; a converter that succeeds leaves its
\* file at the path, in the place of what was there
Export ==
  /\ pc = "export"
  /\ \E ok \in BOOLEAN :
       /\ Replays("export", Res(ok))
       /\ attempted' = Append(attempted, [page |-> page_1b, res |-> Res(ok)])
       /\ page_calls' = Append(page_calls, Call("export", cur_path, Res(ok)))
       /\ outcomes' = Remember("export", Res(ok))
       /\ IF ok
            THEN /\ files' = (cur_path :> "raw") @@ files
                 /\ dirs' = dirs \ {cur_path}
                 /\ msgs' = Append(msgs, Msg("ok", <<page_1b>>))
                 /\ pc' = "describe"
                 /\ UNCHANGED << failures, status, page_num >>
            ELSE /\ SkipPage([page |-> page_1b, output |-> cur_path])
                 /\ UNCHANGED << files, dirs >>
  /\ UNCHANGED << run, reruns, listed, out_path, made_dirs, page_count, page_start, page_end, start_page, end_page, project_id,
                  county, map_obj, output_folder_text, folder_is_none, output_folder, table, in_sr, tmp_path, gtrans,
                  uuids, files_run1 >>

\* the early returns without the test for the Unknown reference
NoReprojectionUnknownMissed(sr) ==
  \/ sr = "None"
  \/ _sr_equal(SpatialRefs[sr], target_sr)

\* lines 237-242: the cases in which project_raster_in_place returns at once
NoReprojection(sr) ==
  \/ sr = "None"
  \/ SpatialRefs[sr].name = "Unknown"
  \/ _sr_equal(SpatialRefs[sr], target_sr)

\* lines 230-246 for the reference res that Describe gave ("fail": it
\* raised): the no-op cases, the temporary path
Described(res) ==
  /\ page_calls' = Append(page_calls, Call("describe", cur_path, res))
  /\ IF res = "fail"
       THEN /\ msgs' = Append(msgs, Msg("warn_describe", <<page_1b>>))
            /\ pc' = "register"
            /\ UNCHANGED << in_sr, tmp_path, uuids >>
       ELSE IF NoReprojection(res)
         THEN /\ pc' = "register"
              /\ in_sr' = res
              /\ UNCHANGED << msgs, tmp_path, uuids >>
         ELSE /\ pc' = "pick"
              /\ in_sr' = res
              /\ uuids' = uuids + 1
              /\ tmp_path' = TmpPath(project_id, page_1b, county, uuids + 1)
              /\ UNCHANGED msgs
  /\ UNCHANGED << run, reruns, listed, out_path, made_dirs, page_count, page_start,
                  page_end, start_page, end_page, project_id, county, map_obj, output_folder_text, folder_is_none, output_folder, dirs, files,
                  table, page_num, failures, gtrans, status, attempted,
                  files_run1 >>

\* lines 230-246: Describe(in_path).spatialReference
Describe ==
  /\ pc = "describe"
  /\ \E res \in DescribedRefs \cup {"fail"} :
       /\ Replays("describe", res)
       /\ outcomes' = Remember("describe", res)
       /\ Described(res)

\* lines 159-171: the choice among the candidates
PriorityKeys == << "NAD_1983", "HARN", "NSRS2007", "2011", "ETRS", "NAVD" >>

Contains(c, key) ==
  \E i \in 1..(Len(c) - Len(key) + 1) : SubSeq(c, i, i + Len(key) - 1) = key

\* the first candidate, in query order, whose name contains key ("" if none)
RECURSIVE FirstWith(_, _)
FirstWith(cands, key) ==
  IF cands = << >> THEN ""
  ELSE IF Contains(Head(cands), key) THEN Head(cands)
  ELSE FirstWith(Tail(cands), key)

\* the loops of lines 164-167 nested the other way round: the first
\* candidate that contains any of the keys
PickByCandidates(cands, keys) ==
  LET hits == {i \in 1..Len(cands) :
                 \E k \in 1..Len(keys) : Contains(cands[i], keys[k])}
  IN  IF hits = {} THEN cands[1]
      ELSE cands[CHOOSE i \in hits : \A j \in hits : i <= j]

RECURSIVE PickByKeys(_, _)
PickByKeys(cands, keys) ==
  IF keys = << >> THEN cands[1]
  ELSE IF FirstWith(cands, Head(keys)) # "" THEN FirstWith(cands, Head(keys))
  ELSE PickByKeys(cands, Tail(keys))

_pick_transform(cands) ==
  IF cands = << >> THEN "" ELSE PickByKeys(cands, PriorityKeys)

\* lines 161-171 as called at line 248: the query gave the list cs, or
\* raised ("fail"), which pick_transform turns into ""
Picked(res, cs) ==
  /\ page_calls' = Append(page_calls, Call("list", "", res))
  /\ listed' = cs
  /\ gtrans' = IF res = "fail" THEN "" ELSE _pick_transform(cs)
  /\ pc' = "project"
  /\ UNCHANGED << run, reruns, out_path, made_dirs, page_count, page_start,
                  page_end, start_page, end_page, project_id, county, map_obj, output_folder_text, folder_is_none, output_folder, dirs, files,
                  table, page_num, failures, in_sr, tmp_path, uuids, status,
                  attempted, msgs, files_run1 >>

\* line 248: pick_transform(in_sr, out_sr)
PickTransform ==
  /\ pc = "pick"
  /\ \E res \in DOMAIN CandidateLists \cup {"fail"} :
       /\ Replays("list", res)
       /\ outcomes' = Remember("list", res)
       /\ Picked(res, IF res = "fail" THEN << >> ELSE CandidateLists[res])

\* lines 249-257 and 263-265: ProjectRaster into the temporary path
ProjectRaster ==
  /\ pc = "project"
  /\ \E ok \in BOOLEAN :
       /\ Replays("project", Res(ok))
       /\ page_calls' = Append(page_calls, Call("project", tmp_path, Res(ok)))
       /\ outcomes' = Remember("project", Res(ok))
       /\ IF ok
            THEN /\ files' = (tmp_path :> "reprojected") @@ files
                 /\ pc' = "delete"
                 /\ UNCHANGED msgs
            ELSE /\ msgs' = Append(msgs, Msg("warn_reproject", <<page_1b>>))
                 /\ pc' = "register"
                 /\ UNCHANGED files
  /\ UNCHANGED << run, reruns, listed, out_path, made_dirs, page_count, page_start, page_end, start_page, end_page, project_id,
                  county, map_obj, output_folder_text, folder_is_none, output_folder, dirs, table, page_num, failures, in_sr,
                  tmp_path, gtrans, uuids, status, attempted, files_run1 >>

\* lines 258-261: Delete(in_path), a failure is passed over
DeleteOriginal ==
  /\ pc = "delete"
  /\ \E ok \in BOOLEAN :
       /\ Replays("delete", Res(ok))
       /\ page_calls' = Append(page_calls, Call("delete", cur_path, Res(ok)))
       /\ outcomes' = Remember("delete", Res(ok))
       /\ files' = IF ok THEN Without(files, cur_path) ELSE files
  /\ pc' = "replace"
  /\ UNCHANGED << run, reruns, listed, out_path, made_dirs, page_count, page_start, page_end, start_page, end_page, project_id,
                  county, map_obj, output_folder_text, folder_is_none, output_folder, dirs, table, page_num, failures, in_sr,
                  tmp_path, gtrans, uuids, status, attempted, msgs, files_run1 >>

\* lines 262-265: os.replace(tmp_path, in_path)
ReplaceOriginal ==
  /\ pc = "replace"
  /\ \E ok \in BOOLEAN :
       /\ Replays("replace", Res(ok))
       /\ page_calls' = Append(page_calls, Call("replace", tmp_path, Res(ok)))
       /\ outcomes' = Remember("replace", Res(ok))
       /\ IF ok
            THEN /\ files' = (cur_path :> files[tmp_path]) @@ Without(files, tmp_path)
                 /\ UNCHANGED msgs
            ELSE /\ msgs' = Append(msgs, Msg("warn_reproject", <<page_1b>>))
                 /\ UNCHANGED files
  /\ pc' = "register"
  /\ UNCHANGED << run, reruns, listed, out_path, made_dirs, page_count, page_start, page_end, start_page, end_page, project_id,
                  county, map_obj, output_folder_text, folder_is_none, output_folder, dirs, table, page_num, failures, in_sr,
                  tmp_path, gtrans, uuids, status, attempted, files_run1 >>

\* a map-add failure that is recorded as a page failure
AddFailedRecorded ==
  /\ msgs' = Append(msgs, Msg("warn_add", <<page_1b>>))
  /\ failures' = Append(failures, [page |-> page_1b, output |-> cur_path])
  /\ NextPage("Succeeded")

\* a map-add failure that is raised out of execute
AddFailedRaised ==
  /\ msgs' = Append(msgs, Msg("warn_add", <<page_1b>>))
  /\ pc' = "aborted"
  /\ UNCHANGED << failures, status, page_num >>

\* lines 317-318: addDataFromPath raised
AddFailed ==
  /\ msgs' = Append(msgs, Msg("warn_add", <<page_1b>>))
  /\ UNCHANGED failures
  /\ NextPage("Succeeded")

\* lines 313-318: add the file to the map; the page is done
Register ==
  /\ pc = "register"
  /\ IF map_obj # "None"
       THEN \E ok \in BOOLEAN :
              /\ Replays("add", Res(ok))
              /\ page_calls' = Append(page_calls, Call("add", cur_path, Res(ok)))
              /\ outcomes' = Remember("add", Res(ok))
              /\ IF ok
                   THEN UNCHANGED << msgs, failures >> /\ NextPage("Succeeded")
                   ELSE AddFailed
       ELSE /\ UNCHANGED << page_calls, outcomes, msgs, failures >>
            /\ NextPage("Succeeded")
  /\ in_sr' = "None"
  /\ tmp_path' = ""
  /\ gtrans' = ""
  /\ listed' = << >>
  /\ UNCHANGED << run, reruns, out_path, made_dirs, page_count, page_start, page_end, start_page, end_page,
                  project_id, county, map_obj, output_folder_text, folder_is_none, output_folder, dirs, files, table, uuids,
                  attempted, files_run1 >>

\* lines 332-345: the table after the write stopped at failAt
TableAfter(failAt) ==
  CASE failAt = "delete"   -> table
    [] failAt = "create"   -> "absent"
    [] failAt = "addfield" -> "nofields"
    [] failAt = "insert"   -> "norows"
    [] failAt = "none"     -> "written"

\* a report that is written whatever the ledger holds
HasFailuresAlways == TRUE

\* line 321: `if failures:`
HasFailures == failures # << >>

\* a failed table write that gives no summary
ReportMsgsNoFallback(failAt) ==
  IF failAt = "none"
    THEN << Msg("summary_skipped", PagesOf(failures)), Msg("info_table", << >>) >>
    ELSE << Msg("warn_table", << >>) >>

\* lines 355-357 after the table is written, lines 359-362 when a step of
\* the write raised
ReportMsgs(failAt) ==
  IF failAt = "none"
    THEN << Msg("summary_skipped", PagesOf(failures)), Msg("info_table", << >>) >>
    ELSE << Msg("warn_table", << >>), Msg("summary_skipped", PagesOf(failures)) >>

\* lines 320-364: the failures table and the summary (adding the table to
\* the map, lines 348-352, changes nothing the model tracks: its failure is
\* passed over without a message)
Report ==
  /\ pc = "report"
  /\ IF HasFailures
       THEN \E failAt \in {"none", "delete", "create", "addfield", "insert"} :
              /\ failAt = "delete" => table # "absent"
              /\ Replays("report", failAt)
              /\ outcomes' = Remember("report", failAt)
              /\ table' = TableAfter(failAt)
              /\ msgs' = msgs \o ReportMsgs(failAt)
       ELSE /\ msgs' = Append(msgs, Msg("summary_none", << >>))
            /\ UNCHANGED << table, outcomes >>
  /\ pc' = "done"
  /\ UNCHANGED << run, reruns, listed, out_path, made_dirs, page_count, page_start,
                  page_end, start_page, end_page, project_id, county, map_obj, output_folder_text, folder_is_none, output_folder, dirs, files,
                  page_num, failures, in_sr, tmp_path, gtrans, uuids, status,
                  attempted, page_calls, files_run1 >>

\* ---------------------------------------------- path resolution, widely
\* project ids and counties as the user may type them
PathProjectIds == {"P1", "2024-017"}
PathCounties == {"Smith", "Van Buren"}

\* folder texts: unset, a folder, a pasted file path, a new folder with a
\* dot in its name, a file name without a folder
PathFolderTexts == {"", "out", "keep/x.tif", "keep/out.v2", "x.tif"}

\* a request for the single page p of a document of MaxPathPage pages
InitPath ==
  /\ reruns = 0
  /\ page_count = MaxPathPage
  /\ page_start \in {Str(n) : n \in 1..MaxPathPage}
  /\ page_end = page_start
  /\ project_id \in PathProjectIds
  /\ county \in PathCounties
  /\ map_obj = "None"
  /\ output_folder_text \in PathFolderTexts
  /\ folder_is_none \in {FALSE, output_folder_text = ""}
  /\ InitFiles({IntValue(page_start)})
  /\ table = "absent"
  /\ uuids = 0
  /\ run = 1
  /\ outcomes = << >>
  /\ files_run1 = {}
  /\ InitRun

\* the run up to the point where the page's output_path is resolved
NextPath ==
  \/ EnsureFolder
  \/ GetMap
  \/ Preflight
  \/ Clean

SpecPath == InitPath /\ [][NextPath]_vars

\* ------------------------------------------- transform selection, widely
\* transformation names the query can return: without a priority token,
\* and with ETRS, NAD_1983, NAVD and 2011
CandidateNames ==
  { "WGS_1984_To_Custom", "ETRS_1989_To_WGS_1984", "NAD_1983_To_WGS_1984_5",
    "NAVD_1988_To_EGM96", "ITRF_2011_To_WGS_1984" }

\* every list of at most MaxCands of these names, in any order
WideCandidateLists ==
  UNION {[1..n -> CandidateNames] : n \in 0..MaxCands}

\* line 248 with any of these lists as the result of the query
PickWide ==
  /\ pc = "pick"
  /\ \E cs \in WideCandidateLists :
       /\ Picked("listed", cs)
       /\ UNCHANGED outcomes

\* a request for page 1 of a one-page document into an existing folder
InitOnePage ==
  /\ reruns = 0
  /\ page_count = 1
  /\ page_start = "1"
  /\ page_end = "1"
  /\ project_id \in ProjectIds
  /\ county \in Counties
  /\ output_folder_text = "out"
  /\ folder_is_none = FALSE
  /\ dirs = {"out"}
  /\ files = << >>
  /\ table = "absent"
  /\ uuids = 0
  /\ run = 1
  /\ outcomes = << >>
  /\ files_run1 = {}
  /\ InitRun

InitPick == InitOnePage /\ map_obj \in MapChoices

NextPick ==
  \/ EnsureFolder
  \/ GetMap
  \/ Preflight
  \/ LoopExit
  \/ Clean
  \/ Export
  \/ Describe
  \/ PickWide
  \/ ProjectRaster
  \/ DeleteOriginal
  \/ ReplaceOriginal
  \/ Register
  \/ Report

SpecPick == InitPick /\ [][NextPick]_vars

\* ------------------------------------------- reference equality, widely
\* lines 230-246 with any reference of SpatialRefs as the file's
DescribeWide ==
  /\ pc = "describe"
  /\ \E res \in DOMAIN SpatialRefs \cup {"None", "fail"} :
       /\ Described(res)
       /\ UNCHANGED outcomes

\* a one-page request with any reference of SpatialRefs as the map's
InitEqual == InitOnePage /\ map_obj \in DOMAIN SpatialRefs \cup {"None"}

NextEqual ==
  \/ EnsureFolder
  \/ GetMap
  \/ Preflight
  \/ LoopExit
  \/ Clean
  \/ Export
  \/ DescribeWide
  \/ PickTransform
  \/ ProjectRaster
  \/ DeleteOriginal
  \/ ReplaceOriginal
  \/ Register
  \/ Report

SpecEqual == InitEqual /\ [][NextEqual]_vars

\* the user runs the tool again with the same parameters
Rerun ==
  /\ pc \in {"done", "aborted", "crashed"}
  /\ reruns > 0
  /\ reruns' = reruns - 1
  /\ run' = run + 1
  /\ files_run1' = DOMAIN files
  /\ pc' = "start"
  /\ output_folder' = ""
  /\ made_dirs' = FALSE
  /\ start_page' = 0
  /\ end_page' = 0
  /\ page_num' = 0
  /\ failures' = << >>
  /\ in_sr' = "None"
  /\ tmp_path' = ""
  /\ gtrans' = ""
  /\ listed' = << >>
  /\ out_path' = ""
  /\ status' = [p \in AllPages |-> "Pending"]
  /\ attempted' = << >>
  /\ page_calls' = << >>
  /\ msgs' = << >>
  /\ UNCHANGED << page_count, page_start, page_end, project_id, county,
                  map_obj, output_folder_text, folder_is_none, dirs, files, table, uuids, outcomes >>

\* one run of execute
Execute ==
  \/ EnsureFolder
  \/ GetMap
  \/ Preflight
  \/ LoopExit
  \/ Clean
  \/ Export
  \/ Describe
  \/ PickTransform
  \/ ProjectRaster
  \/ DeleteOriginal
  \/ ReplaceOriginal
  \/ Register
  \/ Report

\* the dialog, then one run
Next ==
  \/ UpdateParameters
  \/ Execute

Spec == Init /\ [][Next]_vars

\* the same request made twice, the second run meeting the same outcomes
InitTwice == InitInputs({"out"}) /\ InitRun /\ reruns = 1

NextTwice == Execute \/ Rerun

SpecTwice == InitTwice /\ [][NextTwice]_vars

\* ------------------------------------------------------------ the claims
RangeLen == IF req_end_1b >= req_start_1b THEN req_end_1b - req_start_1b + 1 ELSE 0

InRange(p) == req_start_1b <= p /\ p <= req_end_1b

Terminal == {"Succeeded", "Skipped"}

Kinds == {msgs[i].kind : i \in 1..Len(msgs)}

LoopEntered == pc \notin {"start", "map", "preflight", "aborted", "crashed"}

LoopOver == pc \in {"report", "done"}

OpsOf(calls) == {calls[i].op : i \in 1..Len(calls)}

Made(op, res) == \E i \in 1..Len(page_calls) :
                   page_calls[i].op = op /\ page_calls[i].res = res

\* C1: for an accepted range the converter is called for the pages start..end
\* in ascending order, once each; a page the loop has left is Succeeded or
\* Skipped (Skipped exactly when its converter call raised), a page it has
\* not reached is Pending; a failed call on page k is followed by the calls
\* for k+1..end; the loop never goes past page end and never gets stuck.
C1_EveryPageOnceInOrder ==
  /\ Len(attempted) <= RangeLen
  /\ \A i \in 1..Len(attempted) : attempted[i].page = req_start_1b + i - 1
  /\ LoopEntered =>
       /\ \A p \in AllPages :
            IF InRange(p) /\ p < page_1b
              THEN /\ status[p] \in Terminal
                   /\ p - req_start_1b + 1 <= Len(attempted)
                   /\ (status[p] = "Skipped"
                         <=> attempted[p - req_start_1b + 1].res = "fail")
              ELSE status[p] = "Pending"
       /\ page_num <= IF RangeLen = 0 THEN start_page ELSE end_page + 1
       /\ LoopOver => Len(attempted) = RangeLen /\ page_num > end_page
  /\ pc \notin {"done", "aborted", "crashed"} => ENABLED Next

\* a run in which page 1 failed and page 2 was still converted
C1_Witness ==
  /\ pc = "done"
  /\ Len(attempted) = 2
  /\ attempted[1].res = "fail"
  /\ attempted[2].res = "ok"
  /\ status[1] = "Skipped"
  /\ status[2] = "Succeeded"

FailedPages == PagesOf(SelectSeq(attempted, LAMBDA a : a.res = "fail"))

IsPrefix(s, t) == Len(s) <= Len(t) /\ SubSeq(t, 1, Len(s)) = s

C2_LedgerState ==
  /\ PagesOf(failures) = FailedPages
  /\ \A i \in 1..Len(failures) :
       failures[i].output = output_path(project_id, failures[i].page, county)
  /\ \A i, j \in 1..Len(failures) : i < j => failures[i].page < failures[j].page

\* C2: the ledger is, at every moment and so at the end of the run, the
\* ascending sequence of one record per page whose converter call raised and
\* nothing else (no record from a reprojection or map-add failure), and every
\* step leaves the records already in it where they are.
C2_LedgerIsFailedConversions ==
  [] C2_LedgerState /\ [][IsPrefix(failures, failures')]_vars

\* page 1 met a failed replace and a failed map add, page 2 a failed
\* conversion: the ledger holds page 2 alone
C2_Witness ==
  /\ pc = "done"
  /\ {"warn_reproject", "warn_add", "skip"} \subseteq Kinds
  /\ status[1] = "Succeeded"
  /\ PagesOf(failures) = <<2>>

RangeValid == 1 <= req_start_1b /\ req_start_1b <= req_end_1b /\ req_end_1b <= page_count

RangeErrorRaised == pc = "aborted" /\ msgs[Len(msgs)].kind = "error_range"

\* C3: with the page count read, the request enters the page loop exactly
\* when 1 <= start <= end <= pageCount, and is refused with the range error
\* in every other case.
C3_RangeAcceptedIffValid ==
  /\ LoopEntered => RangeValid
  /\ RangeErrorRaised => ~RangeValid

\* C4: a run that ended with the range error called neither makedirs nor the
\* converter nor Delete, and left no failure record, report or summary (its
\* only message is the range error, after the warnings the dialog gave).
C4_RejectedRangeNoSideEffects ==
  RangeErrorRaised =>
    /\ ~made_dirs
    /\ attempted = << >>
    /\ page_calls = << >>
    /\ failures = << >>
    /\ \A i \in 1..(Len(msgs) - 1) : msgs[i].kind = "warn_pagecount"

\* the page the calls in page_calls were made for
CallsPage == IF pc \in {"loop", "report", "done"} THEN page_num ELSE page_1b

CallsPath == output_path(project_id, CallsPage, county)

Whole(path) == path \in DOMAIN files /\ files[path] \in {"raw", "reprojected"}

IsTmpName(f) == Contains(f, ".__tmp_")

\* C5: from the moment ProjectRaster has produced the temporary file until
\* project_raster_in_place has returned, whichever state the run is stopped
\* in, the page's output path holds the whole exported file or the whole
\* reprojected file.
C5_CanonicalPathAlwaysWhole ==
  (pc \in {"delete", "replace", "register"} /\ Made("project", "ok"))
     => Whole(cur_path)

ReconcileFailed == Made("project", "fail") \/ Made("replace", "fail")

\* C6: when ProjectRaster or the replace of the original raised, a warning
\* for the page is logged, the exported file is still at the page's path
\* when project_raster_in_place returns, and the page goes on to the map add
\* and ends Succeeded.
C6_FailedReconcileKeepsOriginal ==
  /\ (pc = "register" /\ ReconcileFailed) =>
       /\ \E i \in 1..Len(msgs) : msgs[i] = Msg("warn_reproject", <<page_1b>>)
       /\ cur_path \in DOMAIN files
       /\ files[cur_path] = "raw"
  /\ (pc = "loop" /\ ReconcileFailed) =>
       /\ status[page_num] = "Succeeded"
       /\ map_obj # "None" => "add" \in OpsOf(page_calls)

\* the cases of C7: Describe raised, gave no reference, gave the Unknown
\* reference, or gave a reference equal to the target
NoOpCase(res) ==
  \/ res \in {"fail", "None"}
  \/ SpatialRefs[res].name = "Unknown"
  \/ _sr_equal(SpatialRefs[res], target_sr)

\* C7: when Describe raised, or gave no reference, the Unknown reference or
\* a reference equal to the target, nothing is done to the page's file: no
\* transformation query, no ProjectRaster, no temporary path, no Delete and
\* no replace; the exported file stays as it was and no temporary file of
\* any page appears for it.
C7_NoOpReconcile ==
  \A i \in 1..Len(page_calls) :
    (page_calls[i].op = "describe" /\ NoOpCase(page_calls[i].res)) =>
      /\ OpsOf(page_calls) \cap {"list", "project", "delete", "replace"} = {}
      /\ tmp_path = ""
      /\ pc # "pick"
      /\ CallsPath \in DOMAIN files
      /\ files[CallsPath] = "raw"
      /\ ~ \E f \in DOMAIN files :
             Contains(f, OutputBase(project_id, CallsPage, county) \o ".__tmp_")

\* the exported file has the map's reference: reconcile returned at once
C7_Witness ==
  /\ pc = "register"
  /\ map_obj = "stateplane"
  /\ Made("describe", "stateplane")
  /\ files[cur_path] = "raw"

\* C8: when the run has ended, the output folder holds no temporary file.
C8_NoTemporaryFileLeft ==
  pc = "done" => \A f \in DOMAIN files : ~IsTmpName(f)

\* C9: when the second of two runs with the same request and the same call
\* outcomes has ended, the folder holds the files it held after the first.
C9_SecondRunSameFiles ==
  (pc = "done" /\ run = 2) => DOMAIN files = files_run1

Summaries == {i \in 1..Len(msgs) : msgs[i].kind \in {"summary_skipped", "summary_none"}}

\* a run that was not stopped handled every page and gave one summary
RunCompletes ==
  /\ pc = "done" =>
       /\ \A p \in AllPages : InRange(p) => status[p] \in Terminal
       /\ Len(attempted) = RangeLen
       /\ Cardinality(Summaries) = 1
  /\ pc \notin {"done", "aborted", "crashed"} => ENABLED Next

\* the run has ended without reaching its summary
Stopped == pc \in {"aborted", "crashed"}

\* C10 as stated: a stopped run was stopped by the range error, and no
\* failure of a Delete, export, reprojection, map add or table write stops it.
C10_OnlyRangeErrorStops ==
  /\ Stopped => RangeErrorRaised
  /\ RunCompletes

\* C10, amended: a run is stopped only before its first page is touched: by
\* an exception of the steps before the preflight (a page value int() does
\* not take, an unset output folder, a makedirs that fails, the project or
\* its map not available), or
\* in the preflight by the unreadable page count or the range error; once in
\* the page loop no failure of a Delete, export, reprojection, map add or
\* table write stops it: every page of the range is handled and one summary
\* given.
C10_OnlyPreflightStops ==
  /\ [] ( /\ Stopped =>
               /\ attempted = << >>
               /\ page_calls = << >>
               /\ out_path = ""
               /\ \A p \in AllPages : status[p] = "Pending"
          /\ pc = "aborted" =>
               msgs[Len(msgs)].kind \in {"error_range", "error_pagecount"}
          /\ RunCompletes )
  /\ [][(pc' = "aborted" /\ pc # "aborted") => pc = "preflight"]_vars
  /\ [][(pc' = "crashed" /\ pc # "crashed") => pc \in {"start", "map"}]_vars
  /\ [][LoopEntered => ~Stopped']_vars

\* a finished run that met a failed stale-file Delete, a failed export, a
\* failed replace, a failed map add and a failed table write
C10_Witness ==
  /\ pc = "done"
  /\ {"skip", "warn_reproject", "warn_add", "warn_table"} \subseteq Kinds
  /\ Made("clean", "fail")
  /\ Made("replace", "fail")
  /\ Cardinality(Summaries) = 1

ReportKinds == {"summary_skipped", "summary_none", "info_table", "warn_table"}

ReportMsgsOf == SelectSeq(msgs, LAMBDA m : m.kind \in ReportKinds)

C11_AtEnd ==
  /\ pc # "done" => Kinds \cap ReportKinds = {}
  /\ pc = "done" =>
       /\ failures # << >> <=> "summary_skipped" \in Kinds
       /\ failures # << >> <=> Kinds \cap {"info_table", "warn_table"} # {}
       /\ failures = << >> => ReportMsgsOf = << Msg("summary_none", << >>) >>

\* C11: the report (table write and skipped-pages summary) is made exactly
\* when the ledger is non-empty at the end of the run and never before the
\* last page has been processed: report messages appear only in the finished
\* run, the table is touched only by the report step of a run whose ledger
\* is non-empty and whose loop has passed end_page, and with an empty ledger
\* the only report message is the 'no pages were skipped' summary.
C11_ReportIffLedgerNonEmpty ==
  /\ []C11_AtEnd
  /\ [][table' # table =>
          pc = "report" /\ pc' = "done" /\ failures # << >> /\ page_num > end_page]_vars

\* a finished run with an empty ledger over a table left by an earlier run
C11_Witness ==
  /\ pc = "done"
  /\ failures = << >>
  /\ Len(attempted) >= 1
  /\ table = "old"
  /\ ReportMsgsOf = << Msg("summary_none", << >>) >>

SkippedPages == {p \in AllPages : status[p] = "Skipped"}

\* the message lists exactly the pages of ps, in ascending order
ListsPages(m, ps) ==
  /\ Len(m.pages) = Cardinality(ps)
  /\ {m.pages[i] : i \in 1..Len(m.pages)} = ps
  /\ \A i \in 1..(Len(m.pages) - 1) : m.pages[i] < m.pages[i + 1]

C12_AtEnd ==
  (pc = "done" /\ "warn_table" \in Kinds) =>
     /\ SkippedPages # {}
     /\ "info_table" \notin Kinds
     /\ Cardinality(Summaries) = 1
     /\ \A i \in Summaries :
          msgs[i].kind = "summary_skipped" /\ ListsPages(msgs[i], SkippedPages)

\* C12: a table write that fails at any step (delete of the previous table,
\* create, add field, insert) is caught: the report step is always taken and
\* always ends the run normally, and the finished run has exactly one
\* summary, which lists every skipped page.
C12_TableWriteFailureCaught ==
  /\ []C12_AtEnd
  /\ [](pc = "report" => ENABLED Report)
  /\ [][pc = "report" => pc' = "done"]_vars

\* two pages were skipped and the insert of their rows failed
C12_Witness ==
  /\ pc = "done"
  /\ Len(failures) = 2
  /\ table = "norows"
  /\ "warn_table" \in Kinds
  /\ msgs[Len(msgs)] = Msg("summary_skipped", PagesOf(failures))

\* the text before and after the page label in a path under `folder`
PathPrefix(folder) ==
  (IF folder = "" THEN "" ELSE folder \o "/") \o project_id \o "_p"
PathSuffix == "_" \o county \o "_County_Project.tif"

\* the page label cut out of a path under `folder`
LabelOf(folder, path) ==
  SubSeq(path, Len(PathPrefix(folder)) + 1, Len(path) - Len(PathSuffix))

\* s is made of the digits 0 to 9 of ASCII, one at least
AsciiDecimal(s) ==
  /\ Len(s) > 0
  /\ \A i \in 1..Len(s) : \E d \in 1..10 : Digits[d] = SubSeq(s, i, i)

\* path is {folder}/{projectId}_p{NN}_{county}_County_Project.tif, where NN
\* is the decimal number of the page, at least two characters long, padded
\* with zeros only up to two characters and never cut
PathHasForm(folder, path) ==
  /\ Len(path) >= Len(PathPrefix(folder)) + 2 + Len(PathSuffix)
  /\ SubSeq(path, 1, Len(PathPrefix(folder))) = PathPrefix(folder)
  /\ SubSeq(path, Len(path) - Len(PathSuffix) + 1, Len(path)) = PathSuffix
  /\ AsciiDecimal(LabelOf(folder, path))
  /\ DecimalValue(LabelOf(folder, path)) = page_1b
  /\ Len(LabelOf(folder, path)) >= 2
  /\ Len(LabelOf(folder, path)) > 2 => SubSeq(LabelOf(folder, path), 1, 1) # "0"
  /\ page_1b = 7 => LabelOf(folder, path) = "07"
  /\ page_1b = 123 => LabelOf(folder, path) = "123"

\* C13: the path resolved for a page at line 275 is
\* {outputFolder}/{projectId}_p{NN}_{county}_County_Project.tif, where
\* outputFolder is the folder execute works in and NN is the decimal page
\* number, at least two characters long, padded with zeros only up to two
\* characters and never cut (7 gives 07, 123 gives 123); this form leaves
\* one path for each (outputFolder, projectId, county, page), so the path is
\* a function of them.
C13_PathIsFunctionOfInputs ==
  pc = "export" => PathHasForm(output_folder, out_path)

\* page 123 of project 2024-017 in Van Buren county
C13_Witness ==
  /\ pc = "export"
  /\ page_1b = 123
  /\ output_folder = "out"
  /\ out_path = "out/2024-017_p123_Van Buren_County_Project.tif"

\* the replace step installed the temporary file at the canonical path
TempInstalled == pc = "replace" /\ pc' = "register" /\ files' # files

\* C14: in the replace step the temporary file is never moved over an
\* original that could not be removed: whenever the temporary file is
\* installed, the original is no longer at the canonical path (deleted, or
\* renamed aside after a failed delete); after a delete that failed and could
\* not be worked around the original stays as the final artifact.
C14_TempNeverOverUnremovedOriginal ==
  [][TempInstalled => cur_path \notin DOMAIN files]_vars

WarnedReconcile(p) == \E i \in 1..Len(msgs) : msgs[i] = Msg("warn_reproject", << p >>)

\* C15: when the query for transformation candidates fails, the failure is
\* logged as a reconciliation warning of that page and the original is kept
\* unreconciled: ProjectRaster is neither pending nor called, nothing is
\* deleted or replaced, and the converter's file stays at the canonical path.
C15_FailedQueryKeepsOriginal ==
  Made("list", "fail") =>
    /\ pc # "project"
    /\ OpsOf(page_calls) \cap {"project", "delete", "replace"} = {}
    /\ WarnedReconcile(CallsPage)
    /\ CallsPath \in DOMAIN files /\ files[CallsPath] = "raw"

\* the page's calls up to the converter: a delete of what was found at the
\* destination (whatever its outcome), or nothing when nothing was found
CleanCalls(found) ==
  IF found
    THEN {<< Call("clean", cur_path, r) >> : r \in {"ok", "fail"}}
    ELSE {<< >>}

C16_ConverterCall ==
  /\ pc = "export" => ENABLED Export
  /\ \A i \in 1..Len(page_calls) :
       page_calls[i].op = "export" =>
         /\ \A j \in 1..Len(page_calls) : page_calls[j].op = "clean" => j < i
         /\ \A j \in 1..Len(page_calls) : page_calls[j].op = "export" => j = i

\* C16: for every page, a file found at the destination path (a regular
\* file, or a directory of that name: whatever os.path.exists finds) is
\* deleted (the delete is attempted) before the converter is called, and the
\* converter is called next whatever the delete gave; when nothing is found
\* there no delete is attempted.
C16_StaleDeletedBeforeConvert ==
  /\ []C16_ConverterCall
  /\ [][(pc = "loop" /\ pc' = "export") =>
          /\ page_calls' \in CleanCalls(cur_path \in DOMAIN files \cup dirs)
          /\ page_calls' \in CleanCalls(FALSE) => (files' = files /\ dirs' = dirs)
          /\ Call("clean", cur_path, "fail") \in {page_calls'[i] : i \in 1..Len(page_calls')}
               => (files' = files /\ dirs' = dirs)]_vars
  /\ [][(pc = "export" /\ pc' # "export") =>
          /\ Len(page_calls') = Len(page_calls) + 1
          /\ page_calls'[Len(page_calls')].op = "export"
          /\ page_calls'[Len(page_calls')].path = out_path]_vars

\* the delete of the stale file failed and the converter then ran
C16_Witness ==
  /\ pc = "describe"
  /\ Len(page_calls) = 2
  /\ page_calls[1] = Call("clean", cur_path, "fail")
  /\ page_calls[2] = Call("export", cur_path, "ok")

Least(S) == CHOOSE x \in S : \A y \in S : x <= y

\* the priority tokens some candidate of cs contains, by their rank
TokensIn(cs) ==
  {k \in 1..Len(PriorityKeys) : \E i \in 1..Len(cs) : Contains(cs[i], PriorityKeys[k])}

\* the candidates of cs that contain the token of rank k, by their position
HoldersOf(cs, k) == {i \in 1..Len(cs) : Contains(cs[i], PriorityKeys[k])}

\* the choice the rule prescribes for the list cs
RuleChoice(cs) ==
  IF cs = << >> THEN ""
  ELSE IF TokensIn(cs) = {} THEN cs[1]
  ELSE cs[Least(HoldersOf(cs, Least(TokensIn(cs))))]

\* C17: the selected transformation is a total function of the candidate
\* list: the empty choice for no candidates; otherwise, when some candidate
\* contains a priority token, the first candidate in query order containing
\* the highest-ranked token that occurs at all; otherwise the first candidate.
C17_TransformChoiceFollowsRule ==
  (pc \in {"project", "delete", "replace", "register"} /\ Made("list", "listed")) =>
     /\ gtrans = RuleChoice(listed)
     /\ listed # << >> => \E i \in 1..Len(listed) : gtrans = listed[i]

\* a lower-ranked token comes first in query order: the NAD_1983 candidate
\* behind it is chosen
C17_Witness ==
  /\ pc = "project"
  /\ listed = << "WGS_1984_To_Custom", "ETRS_1989_To_WGS_1984", "NAD_1983_To_WGS_1984_5" >>
  /\ gtrans = "NAD_1983_To_WGS_1984_5"

BothCoded(a, b) == a.factoryCode # 0 /\ b.factoryCode # 0

\* the equality rule: by code when both carry one, by name otherwise
RuleEqual(a, b) ==
  \/ BothCoded(a, b) /\ a.factoryCode = b.factoryCode
  \/ ~BothCoded(a, b) /\ a.name = b.name

\* the reference is defined: present and not the Unknown reference
Defined(res) == res # "None" /\ SpatialRefs[res].name # "Unknown"

\* reconciliation went on to reproject the page's file
Reprojects == pc = "pick" \/ "list" \in OpsOf(page_calls)

\* C18: two references are equal exactly when their codes match if both
\* carry a code, and exactly when their names match otherwise; the file of a
\* page is reprojected exactly when Describe gave a defined reference that
\* is not equal to the target under this rule.
C18_ReprojectsIffDefinedAndDifferent ==
  \A i \in 1..Len(page_calls) :
    (page_calls[i].op = "describe" /\ page_calls[i].res # "fail") =>
      /\ Reprojects <=>
           (Defined(page_calls[i].res)
              /\ ~RuleEqual(SpatialRefs[page_calls[i].res], target_sr))
      /\ page_calls[i].res # "None" =>
           (_sr_equal(SpatialRefs[page_calls[i].res], target_sr)
              <=> RuleEqual(SpatialRefs[page_calls[i].res], target_sr))

\* the file has the map's code under another name: equal, nothing is done
C18_Witness ==
  /\ pc = "register"
  /\ map_obj = "stateplane"
  /\ Made("describe", "sp_alias")
  /\ ~Reprojects

InLedger(p) == \E i \in 1..Len(failures) : failures[i].page = p

\* C19: when the run has ended, each page of the range has a file at its
\* canonical path exactly when it has no record in the ledger: a skipped page
\* leaves no file there (not even one of an earlier run), a page that was
\* not skipped has one.
C19_FileIffNotInLedger ==
  pc = "done" =>
    \A p \in AllPages :
      InRange(p) =>
        (output_path(project_id, p, county) \in DOMAIN files <=> ~InLedger(p))

AddCalls == {i \in 1..Len(page_calls) : page_calls[i].op = "add"}

ReconcileOps == {"describe", "list", "project", "delete", "replace"}

\* C20: a page's file is handed to the map only when its conversion
\* succeeded, at most once, after reconciliation has returned (the hand-over
\* is the page's last call and follows every reconciliation call) and with
\* the page's canonical path; a file is at that path when it is handed over.
C20_RegisteredArtifactExists ==
  /\ Cardinality(AddCalls) <= 1
  /\ \A i \in AddCalls :
       /\ i = Len(page_calls)
       /\ Made("export", "ok")
       /\ "describe" \in OpsOf(page_calls)
       /\ pc = "loop" \/ LoopOver
       /\ status[CallsPage] = "Succeeded"
       /\ page_calls[i].path = CallsPath
       /\ CallsPath \in DOMAIN files
  /\ Made("export", "fail") => AddCalls = {}
  /\ (pc = "register" /\ map_obj # "None") => cur_path \in DOMAIN files

====
